---- MODULE Spec2Model ----
(***************************************************************************)
(* Model of convert_mlst_to_phyloviz.py: the pipeline of main(), which     *)
(* reads MLST records, derives the header, selects a scheme, partitions    *)
(* the table on the scheme, validates the allele calls and writes the      *)
(* outputs.                                                                *)
(*                                                                         *)
(* Text that the program inspects character by character (the locus        *)
(* designations) is a sequence of one-character strings.  Labels that are  *)
(* only compared as a whole (file, scheme, ST) are strings.  An optional   *)
(* value (Python None) is a sequence of length 0 or 1.                     *)
(*                                                                         *)
(* pandas is modelled as the source was written for it: str.replace takes  *)
(* its pattern as a regular expression, value_counts keeps ties in order   *)
(* of first appearance.                                                    *)
(***************************************************************************)
EXTENDS Integers, Sequences, FiniteSets

\* ------------------------------------------------------------- bounds
NrLoci == 2
MaxRows == 4
MaxAlleleRows == 2
MaxFiles == 3

\* ---------------------------------------------------------- constants
WarnPct == 75
FixedCols == 3
Int32Max == 2147483647

None == << >>
Some(x) == << x >>

\* ------------------------------------------------------------- text
Letters ==
  { "a", "b", "c", "d", "e", "f", "g", "h", "i", "j", "k", "l", "m",
    "n", "o", "p", "q", "r", "s", "t", "u", "v", "w", "x", "y", "z",
    "A", "B", "C", "D", "E", "F", "G", "H", "I", "J", "K", "L", "M",
    "N", "O", "P", "Q", "R", "S", "T", "U", "V", "W", "X", "Y", "Z" }

Digits == { "0", "1", "2", "3", "4", "5", "6", "7", "8", "9" }

DigitVal(c) ==
  CASE c = "0" -> 0 [] c = "1" -> 1 [] c = "2" -> 2 [] c = "3" -> 3
    [] c = "4" -> 4 [] c = "5" -> 5 [] c = "6" -> 6 [] c = "7" -> 7
    [] c = "8" -> 8 [] c = "9" -> 9

IsDigits(t) == Len(t) > 0 /\ \A i \in 1..Len(t) : t[i] \in Digits

RECURSIVE DecVal(_)
DecVal(t) ==
  IF t = << >> THEN 0
  ELSE 10 * DecVal(SubSeq(t, 1, Len(t) - 1)) + DigitVal(t[Len(t)])

\* A coerced cell: a number, or the missing marker NaN.
NaN == [na |-> TRUE, val |-> 0]
Num(n) == [na |-> FALSE, val |-> n]

\* Series.str.replace('[a-zA-Z()]', ''): every letter and parenthesis goes.
StripChar(c) == c \in Letters \cup { "(", ")" }
str_replace(t) == SelectSeq(t, LAMBDA c : ~StripChar(c))

\* pd.to_numeric(..., errors='coerce') on one element: a decimal numeral with
\* an optional sign is its value, anything else is NaN.
to_numeric(t) ==
  IF IsDigits(t) THEN Num(DecVal(t))
  ELSE IF Len(t) > 1 /\ t[1] = "-" /\ IsDigits(Tail(t)) THEN Num(0 - DecVal(Tail(t)))
  ELSE IF Len(t) > 1 /\ t[1] = "+" /\ IsDigits(Tail(t)) THEN Num(DecVal(Tail(t)))
  ELSE NaN

\* astype('int32') on one value: two's complement wrap outside the range.
astype_int32(v) ==
  IF v > Int32Max THEN v - Int32Max - Int32Max - 2
  ELSE IF v < 0 - Int32Max - 1 THEN v + Int32Max + Int32Max + 2
  ELSE v

\* allele.split('(')[0]: the text before the first "(".
RECURSIVE split_paren(_)
split_paren(t) ==
  IF t = << >> \/ Head(t) = "(" THEN << >>
  ELSE << Head(t) >> \o split_paren(Tail(t))

\* ------------------------------------------------------------ tables
\* A row of a DataFrame: the three leading fields, the locus cells, and src,
\* the position of the record in the input (the file's place in mlst_files,
\* or the line's place in the summary file).
Tag(i, r) == [src |-> i, file |-> r.file, scheme |-> r.scheme, ST |-> r.ST, loci |-> r.loci]

RECURSIVE Flatten(_)
Flatten(ss) == IF ss = << >> THEN << >> ELSE Head(ss) \o Flatten(Tail(ss))

\* dataframe[mask]: the rows at the positions where the mask holds, in order.
RECURSIVE BoolIndexFrom(_, _, _)
BoolIndexFrom(df, mask, i) ==
  IF i > Len(df) THEN << >>
  ELSE (IF mask[i] THEN << df[i] >> ELSE << >>) \o BoolIndexFrom(df, mask, i + 1)

BoolIndex(df, mask) == BoolIndexFrom(df, mask, 1)

Ok(v) == [ok |-> TRUE, val |-> v, exc |-> ""]
Raise(e) == [ok |-> FALSE, val |-> << >>, exc |-> e]

\* ------------------------------------------------------ read_mlst_files
\* tmp_df.shape of a parsed file: (lines, fields of a line).
shape(f) == << Len(f), FixedCols + Len(f[1].loci) >>

\* Faulty variant of Accept: only the number of fields is compared.
AcceptNoRowCheck(f, nr_cols) == Len(f) > 0 /\ shape(f)[2] = nr_cols

\* os.stat(file).st_size > 0 and tmp_df.shape == (1, nr_cols)
Accept(f, nr_cols) == Len(f) > 0 /\ shape(f) = << 1, nr_cols >>

\* df_list: the parsed table of every accepted file, in file order.
df_list_of(mlst_files, nr_loci) ==
  LET nr_cols == nr_loci + FixedCols
      tmp_df(i) == [k \in 1..Len(mlst_files[i]) |-> Tag(i, mlst_files[i][k])]
      mask == [i \in 1..Len(mlst_files) |-> Accept(mlst_files[i], nr_cols)]
  IN  BoolIndex([i \in 1..Len(mlst_files) |-> tmp_df(i)], mask)

\* Faulty variant of concat: an empty list gives an empty table.
concat_empty_ok(dfs) == Ok(Flatten(dfs))

\* pd.concat(df_list): ValueError (No objects to concatenate) on an empty list.
concat(dfs) == IF dfs = << >> THEN Raise("ValueError") ELSE Ok(Flatten(dfs))

read_mlst_files(mlst_files, nr_loci) == concat(df_list_of(mlst_files, nr_loci))

\* ---------------------------------------------------- read_mlst_summary
\* pd.read_csv(header=None): every line is a row; EmptyDataError on no data.
read_mlst_summary(mlst_summary) ==
  IF mlst_summary = << >> THEN Raise("EmptyDataError")
  ELSE Ok([k \in 1..Len(mlst_summary) |-> Tag(k, mlst_summary[k])])

\* ----------------------------------------------------------- fix_header
FixedNames == << << "f", "i", "l", "e" >>, << "s", "c", "h", "e", "m", "e" >>, << "S", "T" >> >>

fix_header(dataframe) ==
  IF dataframe = << >> THEN Raise("IndexError")
  ELSE Ok(FixedNames \o [j \in 1..Len(dataframe[1].loci) |-> split_paren(dataframe[1].loci[j])])

\* -------------------------------------------------------- select_scheme
\* The distinct values of a column in order of first appearance.
RECURSIVE Uniques(_)
Uniques(s) ==
  IF s = << >> THEN << >>
  ELSE LET u == Uniques(SubSeq(s, 1, Len(s) - 1))
       IN  IF \E i \in 1..Len(u) : u[i] = s[Len(s)] THEN u ELSE Append(u, s[Len(s)])

CountOf(s, x) == Cardinality({ i \in 1..Len(s) : s[i] = x })

\* Stable insertion of e into a sequence sorted by descending count.
RECURSIVE InsertDesc(_, _)
InsertDesc(sorted, e) ==
  IF sorted = << >> THEN << e >>
  ELSE IF Head(sorted).count >= e.count THEN << Head(sorted) >> \o InsertDesc(Tail(sorted), e)
  ELSE << e >> \o sorted

RECURSIVE SortDesc(_)
SortDesc(s) ==
  IF s = << >> THEN << >>
  ELSE InsertDesc(SortDesc(SubSeq(s, 1, Len(s) - 1)), s[Len(s)])

\* dataframe['scheme'].value_counts(): (label, count), most frequent first.
value_counts(col) ==
  LET u == Uniques(col)
  IN  SortDesc([i \in 1..Len(u) |-> [label |-> u[i], count |-> CountOf(col, u[i])]])

RECURSIVE SumCounts(_)
SumCounts(vc) == IF vc = << >> THEN 0 ELSE Head(vc).count + SumCounts(Tail(vc))

\* Faulty variant of top_label: the last entry, valuecounts.index[-1].
top_label_last(valuecounts) == valuecounts[Len(valuecounts)].label

\* valuecounts.index[0]
top_label(valuecounts) == valuecounts[1].label

\* Faulty variant of low_pct: <= 75.
low_pct_inclusive(count, total) == count * 100 <= WarnPct * total

\* (count / total) * 100 < 75
low_pct(count, total) == count * 100 < WarnPct * total

select_scheme(dataframe, scheme) ==
  LET valuecounts == value_counts([i \in 1..Len(dataframe) |-> dataframe[i].scheme])
      total == SumCounts(valuecounts)
      selected_scheme == IF scheme = None THEN top_label(valuecounts) ELSE scheme[1]
      hit == SelectSeq(valuecounts, LAMBDA e : e.label = selected_scheme)
  IN  \* int() of the empty selection raises TypeError
      IF hit = << >> THEN Raise("TypeError")
      ELSE Ok([selected_scheme |-> selected_scheme,
               warned |-> low_pct(hit[1].count, total)])

\* ------------------------------------------------ clean_dataframe_scheme
not_scheme_of(dataframe, scheme) ==
  LET filter_scheme == [i \in 1..Len(dataframe) |-> dataframe[i].scheme = scheme]
      rest == BoolIndex(dataframe, [i \in 1..Len(dataframe) |-> ~filter_scheme[i]])
  IN  BoolIndex(rest, [i \in 1..Len(rest) |-> rest[i].scheme # "-"])

clean_dataframe_scheme(dataframe, scheme) ==
  LET filter_scheme == [i \in 1..Len(dataframe) |-> dataframe[i].scheme = scheme]
  IN  [dataframe_clean |-> BoolIndex(dataframe, filter_scheme),
       dataframe_not_scheme |-> not_scheme_of(dataframe, scheme)]

\* ----------------------------------------------- clean_dataframe_alleles
\* dataframe_clean[col] is a single column only if the name col is unique in
\* the header; on a repeated name it is a DataFrame, which has no .str.
HasDuplicateColumn(header) ==
  \E j \in (FixedCols + 1)..Len(header) : \E k \in 1..Len(header) : k # j /\ header[k] = header[j]

\* The numeric copy of a row: every locus cell stripped and converted.
Coerce(r) == [r EXCEPT !.loci = [j \in 1..Len(r.loci) |-> to_numeric(str_replace(r.loci[j]))]]

filter_nan(r) == \E j \in 1..Len(r.loci) : r.loci[j].na

filter_no_ST(r) == r.ST = "-"

\* astype(gene_dtypes) on the complete rows.
AstypeClean(rows) ==
  [i \in 1..Len(rows) |->
     [rows[i] EXCEPT !.loci = [j \in 1..Len(rows[i].loci) |-> astype_int32(rows[i].loci[j].val)]]]

\* astype(gene_dtypes, errors='ignore') on the failed rows: a column is cast
\* only if every one of its cells is a numeral, and is left as it is otherwise.
Castable(t) == to_numeric(t).na = FALSE

AstypeIgnore(rows) ==
  LET cast(j) == rows # << >> /\ \A i \in 1..Len(rows) : Castable(rows[i].loci[j])
  IN  [i \in 1..Len(rows) |->
         [rows[i] EXCEPT !.loci = [j \in 1..Len(rows[i].loci) |->
            IF cast(j) THEN [int32 |-> astype_int32(to_numeric(rows[i].loci[j]).val)]
            ELSE rows[i].loci[j]]]]

\* Faulty variant of failed_of: dataframe[filter_nan], without filter_no_ST.
failed_of_nan_only(dataframe) ==
  LET coerced == [i \in 1..Len(dataframe) |-> Coerce(dataframe[i])]
  IN  AstypeIgnore(BoolIndex(dataframe, [i \in 1..Len(dataframe) |-> filter_nan(coerced[i])]))

\* Faulty variant of failed_of: the rows are taken from the numeric copy.
failed_of_coerced(dataframe) ==
  LET coerced == [i \in 1..Len(dataframe) |-> Coerce(dataframe[i])]
  IN  BoolIndex(coerced, [i \in 1..Len(dataframe) |->
                            filter_nan(coerced[i]) \/ filter_no_ST(coerced[i])])

\* dataframe[filter_nan | filter_no_ST], then the best-effort cast.
failed_of(dataframe) ==
  LET coerced == [i \in 1..Len(dataframe) |-> Coerce(dataframe[i])]
  IN  AstypeIgnore(BoolIndex(dataframe, [i \in 1..Len(dataframe) |->
                                           filter_nan(coerced[i]) \/ filter_no_ST(coerced[i])]))

\* dataframe_clean[~filter_nan & ~filter_no_ST], then the cast to int32.
clean_of(dataframe) ==
  LET coerced == [i \in 1..Len(dataframe) |-> Coerce(dataframe[i])]
  IN  AstypeClean(BoolIndex(coerced, [i \in 1..Len(dataframe) |->
                                        ~filter_nan(coerced[i]) /\ ~filter_no_ST(coerced[i])]))

clean_dataframe_alleles(dataframe, header) ==
  IF HasDuplicateColumn(header) THEN Raise("AttributeError")
  ELSE Ok([dataframe_clean |-> clean_of(dataframe),
           dataframe_failed_alleles |-> failed_of(dataframe)])

\* ----------------------------------------------------------------- main
\* df.drop(['file', 'scheme'], axis=1)
Drop(rows) == [i \in 1..Len(rows) |-> [src |-> rows[i].src, ST |-> rows[i].ST, loci |-> rows[i].loci]]

to_csv(header, rows) == [header |-> header, rows |-> rows]

VARIABLES args, pc, error, df, header, selected, warned, df_scheme, df_not_scheme,
          df_clean, df_failed_alleles, written

vars == << args, pc, error, df, header, selected, warned, df_scheme, df_not_scheme,
           df_clean, df_failed_alleles, written >>

NoOutput == [out |-> None, not_scheme |-> None, failed_alleles |-> None]

\* --------------------------------------------------------------- inputs
GeneLetters == << "a", "b", "c", "d" >>
Schemes == { "s1", "s2", "-" }
Dash == << "-" >>

\* geneName(alleleId) for the gene of locus j.
Called(j, id) == << GeneLetters[j], "(" >> \o id \o << ")" >>

Base == [j \in 1..NrLoci |-> Called(j, << "1" >>)]

\* Other designations of locus j: not called, a two-digit allele, a gene name
\* with a digit, a gene name with an underscore, an inexact allele call.
Variants(j) ==
  { Dash,
    Called(j, << "1", "2" >>),
    << GeneLetters[j], "2", "(", "1", ")" >>,
    << GeneLetters[j], "_", "(", "1", ")" >>,
    Called(j, << "~", "1" >>) }

LociVectors ==
  { Base }
    \cup UNION { { [Base EXCEPT ![j] = v] : v \in Variants(j) } : j \in 1..NrLoci }
    \cup { [Base EXCEPT ![j] = Dash, ![k] = Dash] : j \in 1..NrLoci, k \in 1..NrLoci }

RawRow(s, st, l) == [file |-> "f", scheme |-> s, ST |-> st, loci |-> l]

STs == { "1", "-" }
SchemeRows == { RawRow(s, st, Base) : s \in Schemes, st \in STs }
AlleleRows ==
  { RawRow("s1", "1", l) : l \in LociVectors }
    \cup { RawRow("s1", "-", Base), RawRow("s1", "-", [Base EXCEPT ![1] = Dash]) }


\* A file: no line (size 0), one line of the expected width, one line that is
\* too short or too long, or two lines.
Narrow == RawRow("s1", "1", [j \in 1..(NrLoci - 1) |-> Called(j, << "1" >>)])
Wide == RawRow("s1", "1", [j \in 1..(NrLoci + 1) |-> Called(j, << "1" >>)])
GoodRows == { RawRow(s, "1", Base) : s \in Schemes }
              \cup { RawRow("s1", "-", Base), RawRow("s1", "1", [Base EXCEPT ![1] = Dash]) }
Files ==
  { << >>, << Narrow >>, << Wide >>, << RawRow("s1", "1", Base), RawRow("s2", "1", Base) >> }
    \cup { << r >> : r \in GoodRows }

SchemeArgs == { None } \cup { Some(s) : s \in Schemes }

Args(files, summary, scheme, incl, ns, fa) ==
  [mlst_files |-> files, mlst_summary |-> summary, scheme |-> scheme, nr_loci |-> NrLoci,
   include_filename |-> incl, not_scheme |-> ns, failed_alleles |-> fa]

DefaultArgs(files, summary, scheme) == Args(files, summary, scheme, FALSE, TRUE, TRUE)

OneRow == << RawRow("s1", "1", Base) >>

Start ==
  /\ pc = "start"
  /\ error = ""
  /\ df = << >>
  /\ header = << >>
  /\ selected = None
  /\ warned = FALSE
  /\ df_scheme = << >>
  /\ df_not_scheme = << >>
  /\ df_clean = << >>
  /\ df_failed_alleles = << >>
  /\ written = NoOutput

\* The command lines: neither or both input modes; a summary file whose rows
\* differ in scheme and ST, with or without --scheme; a summary file whose rows
\* differ in their locus designations; one row under every combination of the
\* output flags; a list of files, with or without --scheme.
Init ==
  /\ Start
  /\ \/ args = DefaultArgs(None, None, None)
     \/ args = DefaultArgs(Some(<< OneRow >>), Some(OneRow), None)
     \/ \E n \in 0..MaxRows : \E t \in [1..n -> SchemeRows] : \E s \in SchemeArgs :
          args = DefaultArgs(None, Some(t), s)
     \/ \E n \in 1..MaxAlleleRows : \E t \in [1..n -> AlleleRows] :
          args = DefaultArgs(None, Some(t), None)
     \/ \E r \in AlleleRows : \E incl \in BOOLEAN, ns \in BOOLEAN, fa \in BOOLEAN :
          args = Args(None, Some(<< r >>), None, incl, ns, fa)
     \/ \E n \in 1..MaxFiles : \E fl \in [1..n -> Files] : \E s \in SchemeArgs :
          args = DefaultArgs(Some(fl), None, s)

\* -------------------------------------------------------------- actions
\* __main__: exit unless exactly one of the two input modes is given.
Usage ==
  /\ pc = "start"
  /\ IF (args.mlst_files = None) = (args.mlst_summary = None)
       THEN pc' = "exit" /\ error' = "usage"
       ELSE pc' = "read" /\ error' = error
  /\ UNCHANGED << args, df, header, selected, warned, df_scheme, df_not_scheme,
                  df_clean, df_failed_alleles, written >>

Crash(e) == pc' = "crashed" /\ error' = e

ReadMlstFiles ==
  /\ pc = "read"
  /\ args.mlst_files # None
  /\ LET r == read_mlst_files(args.mlst_files[1], args.nr_loci)
     IN  IF r.ok THEN df' = r.val /\ pc' = "fix_header" /\ error' = error
         ELSE df' = df /\ Crash(r.exc)
  /\ UNCHANGED << args, header, selected, warned, df_scheme, df_not_scheme,
                  df_clean, df_failed_alleles, written >>

ReadMlstSummary ==
  /\ pc = "read"
  /\ args.mlst_summary # None
  /\ LET r == read_mlst_summary(args.mlst_summary[1])
     IN  IF r.ok THEN df' = r.val /\ pc' = "fix_header" /\ error' = error
         ELSE df' = df /\ Crash(r.exc)
  /\ UNCHANGED << args, header, selected, warned, df_scheme, df_not_scheme,
                  df_clean, df_failed_alleles, written >>

FixHeader ==
  /\ pc = "fix_header"
  /\ LET r == fix_header(df)
     IN  IF r.ok THEN header' = r.val /\ pc' = "select_scheme" /\ error' = error
         ELSE header' = header /\ Crash(r.exc)
  /\ UNCHANGED << args, df, selected, warned, df_scheme, df_not_scheme,
                  df_clean, df_failed_alleles, written >>

SelectScheme ==
  /\ pc = "select_scheme"
  /\ LET r == select_scheme(df, args.scheme)
     IN  IF r.ok
           THEN /\ selected' = Some(r.val.selected_scheme)
                /\ warned' = r.val.warned
                /\ pc' = "clean_dataframe_scheme"
                /\ error' = error
           ELSE selected' = selected /\ warned' = warned /\ Crash(r.exc)
  /\ UNCHANGED << args, df, header, df_scheme, df_not_scheme,
                  df_clean, df_failed_alleles, written >>

CleanDataframeScheme ==
  /\ pc = "clean_dataframe_scheme"
  /\ LET r == clean_dataframe_scheme(df, selected[1])
     IN  /\ df_scheme' = r.dataframe_clean
         /\ df_not_scheme' = r.dataframe_not_scheme
  /\ pc' = "clean_dataframe_alleles"
  /\ UNCHANGED << args, error, df, header, selected, warned,
                  df_clean, df_failed_alleles, written >>

CleanDataframeAlleles ==
  /\ pc = "clean_dataframe_alleles"
  /\ LET r == clean_dataframe_alleles(df_scheme, header)
     IN  IF r.ok
           THEN /\ df_clean' = r.val.dataframe_clean
                /\ df_failed_alleles' = r.val.dataframe_failed_alleles
                /\ pc' = "write"
                /\ error' = error
           ELSE df_clean' = df_clean /\ df_failed_alleles' = df_failed_alleles /\ Crash(r.exc)
  /\ UNCHANGED << args, df, header, selected, warned, df_scheme, df_not_scheme, written >>

WriteOutputs ==
  /\ pc = "write"
  /\ written' =
       [out |-> IF args.include_filename THEN Some(to_csv(header, df_clean))
                ELSE Some(to_csv(SubSeq(header, FixedCols, Len(header)), Drop(df_clean))),
        not_scheme |-> IF args.not_scheme THEN Some(to_csv(header, df_not_scheme)) ELSE None,
        failed_alleles |-> IF args.failed_alleles THEN Some(to_csv(header, df_failed_alleles))
                           ELSE None]
  /\ pc' = "done"
  /\ UNCHANGED << args, error, df, header, selected, warned, df_scheme, df_not_scheme,
                  df_clean, df_failed_alleles >>

Next ==
  \/ Usage
  \/ ReadMlstFiles
  \/ ReadMlstSummary
  \/ FixHeader
  \/ SelectScheme
  \/ CleanDataframeScheme
  \/ CleanDataframeAlleles
  \/ WriteOutputs

Spec == Init /\ [][Next]_vars

\* --------------------------------------------------------------- claims
Srcs(t) == { t[i].src : i \in 1..Len(t) }

Partitioned == pc \in { "write", "done" }

SchemeColumn == [i \in 1..Len(df) |-> df[i].scheme]

\* The row of the ingested table that a row of an output came from.
Origin(r) == CHOOSE k \in 1..Len(df) : df[k].src = r.src

\* A designation geneName(alleleId) whose alleleId is a decimal numeral.
AlleleIdText(cell) == SubSeq(cell, Len(split_paren(cell)) + 2, Len(cell) - 1)

HasIntegerAlleleId(cell) ==
  /\ Len(cell) >= Len(split_paren(cell)) + 3
  /\ Len(split_paren(cell)) >= 1
  /\ cell[Len(split_paren(cell)) + 1] = "("
  /\ cell[Len(cell)] = ")"
  /\ IsDigits(AlleleIdText(cell))

FullyTyped(r) == r.ST # "-" /\ \A j \in 1..Len(r.loci) : HasIntegerAlleleId(r.loci[j])

\* C1: once both cleaning steps have run, clean, mismatched and failed hold
\* each ingested row at most once and are pairwise disjoint, clean and failed
\* together are exactly the rows of the selected scheme, and the rows in no
\* output are exactly the rows of scheme '-' when '-' is not the selected scheme.
C1_Partition ==
  Partitioned =>
    LET C == Srcs(df_clean)
        M == Srcs(df_not_scheme)
        F == Srcs(df_failed_alleles)
        sel == selected[1]
    IN  /\ C \cap M = {} /\ C \cap F = {} /\ M \cap F = {}
        /\ Cardinality(C) = Len(df_clean)
        /\ Cardinality(M) = Len(df_not_scheme)
        /\ Cardinality(F) = Len(df_failed_alleles)
        /\ \A t \in { df_clean, df_not_scheme, df_failed_alleles } : \A i \in 1..Len(t) :
             \E k \in 1..Len(df) :
               /\ df[k].src = t[i].src
               /\ df[k].file = t[i].file
               /\ df[k].scheme = t[i].scheme
               /\ df[k].ST = t[i].ST
        /\ C \cup F = { df[k].src : k \in { i \in 1..Len(df) : df[i].scheme = sel } }
        /\ Srcs(df) \ (C \cup M \cup F)
             = { df[k].src : k \in { i \in 1..Len(df) : df[i].scheme = "-" /\ sel # "-" } }

C1_Witness ==
  /\ pc = "done"
  /\ df_clean # << >> /\ df_not_scheme # << >> /\ df_failed_alleles # << >>
  /\ Srcs(df) \ (Srcs(df_clean) \cup Srcs(df_not_scheme) \cup Srcs(df_failed_alleles)) # {}

\* C2: a row of the selected scheme is in clean exactly if every locus cell
\* carries an integer allele id and its ST is not '-'.
C2_CleanIffTyped ==
  Partitioned =>
    \A i \in 1..Len(df_scheme) :
      (df_scheme[i].src \in Srcs(df_clean)) <=> FullyTyped(df_scheme[i])

\* C3: without --scheme the selected label is the most frequent scheme of the
\* table, and among equally frequent ones the one that appears first.
C3_MostFrequent ==
  (args.scheme = None /\ selected # None) =>
    LET best == { i \in 1..Len(df) :
                    \A k \in 1..Len(df) : CountOf(SchemeColumn, df[k].scheme)
                                            <= CountOf(SchemeColumn, df[i].scheme) }
    IN  \E i \in best : /\ selected[1] = df[i].scheme
                        /\ \A k \in best : i <= k

C3_Witness ==
  /\ pc = "done"
  /\ args.scheme = None
  /\ Len(df) = 4
  /\ df[1].scheme # df[2].scheme
  /\ CountOf(SchemeColumn, df[1].scheme) = 2
  /\ CountOf(SchemeColumn, df[2].scheme) = 2
  /\ selected = Some(df[1].scheme)

\* C4: the warning is given exactly if the selected scheme covers less than
\* 75% of the rows; with or without it the label is the one asked for, or the
\* most frequent one, and the run goes on.
C4_WarnBelow75 ==
  /\ selected # None =>
       /\ warned <=> (CountOf(SchemeColumn, selected[1]) * 100 < 75 * Len(df))
       /\ args.scheme # None => selected = args.scheme
       /\ args.scheme = None =>
            \A k \in 1..Len(df) : CountOf(SchemeColumn, df[k].scheme)
                                    <= CountOf(SchemeColumn, selected[1])
  /\ selected = None => ~warned
  /\ (warned /\ pc = "crashed") => error = "AttributeError"

C4_Witness ==
  /\ pc = "done"
  /\ SchemeColumn = << "s1", "s1", "s2" >>
  /\ selected = Some("s1")
  /\ warned

\* C5: the clean row of every fully typed row of the selected scheme holds, in
\* every locus column, the number written between the parentheses.
C5_RoundTrip ==
  Partitioned =>
    \A i \in 1..Len(df_scheme) :
      FullyTyped(df_scheme[i]) =>
        \E k \in 1..Len(df_clean) :
          /\ df_clean[k].src = df_scheme[i].src
          /\ \A j \in 1..Len(df_scheme[i].loci) :
               df_clean[k].loci[j] = DecVal(AlleleIdText(df_scheme[i].loci[j]))

\* C6: no row of scheme '-' is in the mismatched table or in the clean table.
C6_SentinelOnlyFailed ==
  /\ \A i \in 1..Len(df_not_scheme) : df_not_scheme[i].scheme # "-"
  /\ \A i \in 1..Len(df_clean) : df_clean[i].scheme # "-"

\* C7: with --scheme given, select_scheme returns that label, whether or not a
\* row carries it, and does not end in an unhandled exception.
C7_ExplicitSchemeReturned ==
  (args.scheme # None /\ header # << >> /\ pc # "select_scheme") =>
    /\ selected = args.scheme
    /\ error # "TypeError"

\* C8: in multi-file mode the table holds exactly the first line of every file
\* that has one line of nr_loci + 3 fields, in file order; the other files stop
\* nothing and reach no output.
C8_AcceptedFiles ==
  (args.mlst_files # None /\ args.mlst_summary = None) =>
    LET files == args.mlst_files[1]
        good == { i \in 1..Len(files) :
                    Len(files[i]) = 1 /\ Len(files[i][1].loci) + 3 = args.nr_loci + 3 }
    IN  /\ (good # {} /\ pc \notin { "start", "read" }) =>
             /\ Srcs(df) = good
             /\ Len(df) = Cardinality(good)
             /\ \A i \in 1..Len(df) : df[i] = Tag(df[i].src, files[df[i].src][1])
             /\ \A i \in 1..Len(df), k \in 1..Len(df) : i < k => df[i].src < df[k].src
        /\ (pc = "crashed" /\ error = "ValueError") => good = {}
        /\ Srcs(df_clean) \cup Srcs(df_not_scheme) \cup Srcs(df_failed_alleles) \subseteq good

C8_Witness ==
  /\ pc = "done"
  /\ args.mlst_files # None
  /\ Len(args.mlst_files[1]) = 3
  /\ args.mlst_files[1][1] = << >>
  /\ args.mlst_files[1][2] = << Wide >>
  /\ Srcs(df_clean) = { 3 }

\* C9: with neither or both input modes, or with no acceptable file, the run
\* ends before the header is derived: nothing is ingested, selected or written.
C9_FatalBeforeStages ==
  LET invalid == (args.mlst_files = None) = (args.mlst_summary = None)
      zero == /\ ~invalid
              /\ args.mlst_files # None
              /\ \A i \in 1..Len(args.mlst_files[1]) :
                   ~(Len(args.mlst_files[1][i]) = 1
                       /\ Len(args.mlst_files[1][i][1].loci) = args.nr_loci)
  IN  /\ invalid => pc \in { "start", "exit" }
      /\ zero => pc \in { "start", "read", "crashed" }
      /\ (invalid \/ zero) =>
           /\ df = << >> /\ header = << >> /\ selected = None
           /\ df_scheme = << >> /\ df_clean = << >>
           /\ written = NoOutput
      /\ pc = "exit" => invalid

C9_Witness ==
  /\ pc = "crashed"
  /\ error = "ValueError"
  /\ args.mlst_files # None
  /\ Len(args.mlst_files[1]) = 2

\* C10: every row of the failed table is a row of the ingested table as it was
\* read: every cell, a bare '-' included, is the original text.
C10_FailedKeepsOriginal ==
  \A i \in 1..Len(df_failed_alleles) :
    /\ df_failed_alleles[i].file = df[Origin(df_failed_alleles[i])].file
    /\ df_failed_alleles[i].scheme = df[Origin(df_failed_alleles[i])].scheme
    /\ df_failed_alleles[i].ST = df[Origin(df_failed_alleles[i])].ST
    /\ \A j \in 1..Len(df_failed_alleles[i].loci) :
         /\ DOMAIN df_failed_alleles[i].loci[j] = DOMAIN df[Origin(df_failed_alleles[i])].loci[j]
         /\ df_failed_alleles[i].loci[j] = df[Origin(df_failed_alleles[i])].loci[j]

C10_Witness ==
  /\ pc = "done"
  /\ \E i \in 1..Len(df_failed_alleles) :
       /\ df_failed_alleles[i].ST # "-"
       /\ df_failed_alleles[i].loci[1] = Dash

====
